---- MODULE Spec2Model ----
(***************************************************************************)
(* A model of the markings crate (src/src/lib.rs): the `${key}` scanner    *)
(* Template::find_keys, Opts::validate, Template::parse and the            *)
(* substitution loop of Template::apply.                                   *)
(*                                                                         *)
(* Text is a sequence of one-character strings.  All characters used are   *)
(* ASCII, so the byte offsets of char_indices() are the 0-based indices    *)
(* of the sequence; At(s, pos) reads the character at byte offset pos.     *)
(* Option<T> is a set with at most one element: None is {} and Some(v)     *)
(* is {v}.  Result<T, Error> is [ok |-> TRUE, val |-> v] or                *)
(* [ok |-> FALSE, err |-> e].                                              *)
(***************************************************************************)
EXTENDS Integers, Sequences, FiniteSets, TLC

VARIABLES
    input,    \* the &str handed to find_keys / parse
    opts,     \* the Opts handed to parse
    pc,       \* position of the caller: start, scanned, parsed, apply, done, failed
    scanned,  \* result of a stand-alone Template::find_keys(input)
    parsed,   \* result of Template::parse(input, opts)
    self,     \* the Template being consumed by apply: data, state.keys, opts
    args,     \* Args.mapping: key -> rendered value
    todo,     \* keys of args.mapping the for loop of apply has not yet visited
    result    \* result of Template::apply

vars == <<input, opts, pc, scanned, parsed, self, args, todo, result>>

\* ------------------------------------------------------------------ bounds

\* longest input of the scanner specification
MaxLen == 7
\* most parts (characters or whole markers) a generated template is made of
MaxParts == 3

\* ------------------------------------------------------------ result types

Ok(v) == [ok |-> TRUE, val |-> v]
Err(e) == [ok |-> FALSE, err |-> e]

MismatchedBraces(open, close) == [kind |-> "MismatchedBraces", open |-> open, close |-> close]
ExpectedClosing(head) == [kind |-> "ExpectedClosing", head |-> head]
ExpectedOpening(tail) == [kind |-> "ExpectedOpening", tail |-> tail]
NestedTemplate(pos) == [kind |-> "NestedTemplate", pos |-> pos]
DuplicateKeys == [kind |-> "DuplicateKeys"]
EmptyTemplate == [kind |-> "EmptyTemplate"]
OptionalKeys == [kind |-> "OptionalKeys"]

\* ------------------------------------------------------------------- text

\* the character at byte offset pos (0-based)
At(s, pos) == s[pos + 1]

\* &input[from..to]: the bytes at offsets from .. to-1
Slice(s, from, to) == SubSeq(s, from + 1, to)

\* does pat occur in s at byte offset pos
MatchAt(s, pat, pos) ==
    /\ pos + Len(pat) <= Len(s)
    /\ \A j \in 1..Len(pat) : s[pos + j] = pat[j]

\* -------------------------------------------------------- Template::find_keys

\* iter.peek().map(|&(_, d)| d == '{').unwrap_or_default() with the iterator
\* standing just after the character at offset pos
PeekIsBrace(s, pos) == pos + 1 < Len(s) /\ At(s, pos + 1) = "{"

\* a variant that records a head only when no marker is open
ScanCharOnlyFirstHead(s, st) ==
    LET pos == st.next
        ch == At(s, pos)
        opens == ch = "$" /\ PeekIsBrace(s, pos)
        push == opens /\ st.last = {}
        last1 == IF opens THEN {pos} ELSE st.last
        heads1 == IF push THEN Append(st.heads, pos) ELSE st.heads
        next1 == IF opens THEN pos + 2 ELSE pos + 1
    IN  IF ch = "{" /\ last1 # {}
        THEN [st EXCEPT !.ret = {Err(NestedTemplate(pos))}]
        ELSE IF ch = "}" /\ last1 # {}
        THEN [st EXCEPT !.next = next1, !.heads = heads1,
                        !.tails = Append(st.tails, pos), !.last = {}]
        ELSE [st EXCEPT !.next = next1, !.heads = heads1, !.last = last1]

\* one iteration of the while loop: st.next is the offset iter.next() yields
ScanChar(s, st) ==
    LET pos == st.next
        ch == At(s, pos)
        opens == ch = "$" /\ PeekIsBrace(s, pos)
        \* last.replace(pos); heads.push(pos); iter.next();
        last1 == IF opens THEN {pos} ELSE st.last
        heads1 == IF opens THEN Append(st.heads, pos) ELSE st.heads
        next1 == IF opens THEN pos + 2 ELSE pos + 1
    IN  IF ch = "{" /\ last1 # {}
        THEN [st EXCEPT !.ret = {Err(NestedTemplate(pos))}]
        ELSE IF ch = "}" /\ last1 # {}
        THEN [st EXCEPT !.next = next1, !.heads = heads1,
                        !.tails = Append(st.tails, pos), !.last = {}]
        ELSE [st EXCEPT !.next = next1, !.heads = heads1, !.last = last1]

\* the while loop over input.char_indices()
RECURSIVE ScanLoop(_, _)
ScanLoop(s, st) ==
    IF st.ret # {} \/ st.next >= Len(s)
    THEN st
    ELSE ScanLoop(s, ScanChar(s, st))

\* Vec::reverse
RECURSIVE Reverse(_)
Reverse(q) == IF q = <<>> THEN <<>> ELSE Append(Reverse(Tail(q)), Head(q))

\* Vec::pop: the last element, or None
Pop(q) == IF q = <<>> THEN {} ELSE {q[Len(q)]}
PopRest(q) == IF q = <<>> THEN <<>> ELSE SubSeq(q, 1, Len(q) - 1)

\* for head in heads { ... } and the check that follows it; tails is the reversed
\* vector, keys the vector built so far
RECURSIVE PairKeys(_, _, _, _)
PairKeys(s, heads, tails, keys) ==
    IF heads = <<>>
    THEN IF tails # <<>>
         THEN Err(MismatchedBraces(0, Len(tails)))
         ELSE Ok(keys)
    ELSE LET head == Head(heads)
             tail == Pop(tails)
         IN  IF tail = {}
             THEN Err(ExpectedClosing(head))
             ELSE LET t == CHOOSE x \in tail : TRUE
                  IN  IF t > head
                      THEN PairKeys(s, Tail(heads), PopRest(tails),
                                    Append(keys, Slice(s, head + 2, t)))
                      ELSE Err(ExpectedOpening(t))

\* a variant that hands the tails to the pairing loop without reversing them
CollectKeysNoReverse(s, heads, tails) == PairKeys(s, heads, tails, <<>>)

\* tails.reverse() and the pairing loop
CollectKeys(s, heads, tails) == PairKeys(s, heads, Reverse(tails), <<>>)

find_keys(s) ==
    LET st == ScanLoop(s, [next |-> 0, last |-> {}, heads |-> <<>>,
                           tails |-> <<>>, ret |-> {}])
    IN  IF st.ret # {}
        THEN CHOOSE r \in st.ret : TRUE
        ELSE IF Len(st.heads) # Len(st.tails)
        THEN Err(MismatchedBraces(Len(st.heads), Len(st.tails)))
        ELSE CollectKeys(s, st.heads, st.tails)

\* ------------------------------------------------------------------- State

\* State::has_keys
has_keys(keys) == keys # <<>>

\* a variant of the removal loop that stops at the first match
RECURSIVE RemoveFirstOnly(_, _, _, _)
RemoveFirstOnly(keys, key, i, out) ==
    IF i = Len(keys) \/ out # {}
    THEN [keys |-> keys, out |-> out]
    ELSE IF At(keys, i) = key
    THEN RemoveFirstOnly(Slice(keys, 0, i) \o Slice(keys, i + 1, Len(keys)), key, i,
                         {<<At(keys, i), 1>>})
    ELSE RemoveFirstOnly(keys, key, i + 1, out)

\* the while loop of State::remove: i is the index, out the Option<(&str, usize)>
RECURSIVE RemoveLoop(_, _, _, _)
RemoveLoop(keys, key, i, out) ==
    IF i = Len(keys)
    THEN [keys |-> keys, out |-> out]
    ELSE IF At(keys, i) = key
    THEN LET s == At(keys, i)
             \* self.keys.remove(i)
             rest == Slice(keys, 0, i) \o Slice(keys, i + 1, Len(keys))
             \* out.get_or_insert_with(|| (s, 0)); *count += 1
             cur == IF out = {} THEN <<s, 0>> ELSE CHOOSE o \in out : TRUE
         IN  RemoveLoop(rest, key, i, {<<cur[1], cur[2] + 1>>})
    ELSE RemoveLoop(keys, key, i + 1, out)

\* a variant of State::remove that takes out the first match only
remove_first_only(keys, key) ==
    IF keys = <<>>
    THEN [keys |-> keys, out |-> {}]
    ELSE RemoveFirstOnly(keys, key, 0, {})

\* State::remove: the keys left and the Option it returns
remove(keys, key) ==
    IF keys = <<>>
    THEN [keys |-> keys, out |-> {}]
    ELSE RemoveLoop(keys, key, 0, {})

\* a variant that only notices a key repeating the one right before it
has_duplicates_adjacent(keys) ==
    \E i \in 1..(Len(keys) - 1) : keys[i] = keys[i + 1]

\* State::has_duplicates: some key fails HashSet::insert, the set then holding
\* the keys before it
has_duplicates(keys) ==
    \E i \in 1..Len(keys) : keys[i] \in {keys[j] : j \in 1..(i - 1)}

\* ----------------------------------------------------------- Opts, Template

AllOpts == [optional_keys : BOOLEAN, duplicate_keys : BOOLEAN, empty_template : BOOLEAN]

\* Opts::validate
validate(o, keys) ==
    IF ~o.empty_template /\ ~has_keys(keys)
    THEN Err(EmptyTemplate)
    ELSE IF ~o.duplicate_keys /\ has_duplicates(keys)
    THEN Err(DuplicateKeys)
    ELSE Ok(<<>>)

\* Template::parse
parse(s, o) ==
    LET found == find_keys(s)
    IN  IF ~found.ok
        THEN found
        ELSE LET checked == validate(o, found.val)
             IN  IF ~checked.ok
                 THEN checked
                 ELSE Ok([data |-> s, keys |-> found.val, opts |-> o])

\* a variant of is_empty that is never true
is_empty_never(t) == FALSE

\* Template::is_empty
is_empty(t) == t.opts.empty_template

\* format!("${{{}}}", match_)
Marker(key) == <<"$", "{">> \o key \o <<"}">>

\* str::replace: every non-overlapping match of pat, left to right; pat is never
\* empty here
RECURSIVE Replace(_, _, _)
Replace(s, pat, to) ==
    IF Len(s) < Len(pat)
    THEN s
    ELSE IF MatchAt(s, pat, 0)
    THEN to \o Replace(Slice(s, Len(pat), Len(s)), pat, to)
    ELSE <<Head(s)>> \o Replace(Tail(s), pat, to)

\* a variant of the loop body that computes the replaced text and drops it
ApplyArgDropsText(t, key, val) ==
    LET matches == remove(t.keys, key)
    IN  IF matches.out # {}
        THEN [t |-> [t EXCEPT !.keys = matches.keys], ret |-> {}]
        ELSE IF t.opts.optional_keys \/ is_empty(t)
        THEN [t |-> t, ret |-> {}]
        ELSE [t |-> t, ret |-> {Err(OptionalKeys)}]

\* the body of the for loop of Template::apply for one (key, val) of the mapping:
\* the template after it, and what it returns early, if anything
ApplyArg(t, key, val) ==
    LET matches == remove(t.keys, key)
    IN  IF matches.out # {}
        THEN LET match_ == (CHOOSE o \in matches.out : TRUE)[1]
                 s == Replace(t.data, Marker(match_), val)
             IN  [t |-> [t EXCEPT !.data = s, !.keys = matches.keys], ret |-> {}]
        ELSE IF t.opts.optional_keys \/ is_empty(t)
        THEN [t |-> t, ret |-> {}]
        ELSE [t |-> t, ret |-> {Err(OptionalKeys)}]

\* a variant of the end of apply that rejects a template with keys left over
ApplyEndStrict(t) == IF t.keys = <<>> THEN Ok(t.data) ELSE Err(OptionalKeys)

\* the end of Template::apply: self.data.shrink_to_fit(); Ok(self.data)
ApplyEnd(t) == Ok(t.data)

\* Template::apply when the mapping yields its pairs in the order of the sequence
\* order
RECURSIVE ApplyInOrder(_, _, _)
ApplyInOrder(t, a, order) ==
    IF order = <<>>
    THEN ApplyEnd(t)
    ELSE LET step == ApplyArg(t, Head(order), a[Head(order)])
         IN  IF step.ret # {}
             THEN CHOOSE r \in step.ret : TRUE
             ELSE ApplyInOrder(step.t, a, Tail(order))

\* ----------------------------------------------------------------- inputs

ScanAlphabet == {"$", "{", "}", "a"}

\* every text of at most n characters
RECURSIVE Texts(_, _)
Texts(alphabet, n) ==
    IF n = 0
    THEN {<<>>}
    ELSE LET shorter == Texts(alphabet, n - 1)
         IN  shorter \cup {Append(t, c) : t \in shorter, c \in alphabet}

ScanInputs == Texts(ScanAlphabet, MaxLen)

DefaultOpts == [optional_keys |-> FALSE, duplicate_keys |-> FALSE, empty_template |-> FALSE]

\* ------------------------------------------------- the scanner specification

InitScan ==
    /\ input \in ScanInputs
    /\ opts = DefaultOpts
    /\ pc = "start"
    /\ scanned = {}
    /\ parsed = {}
    /\ self = {}
    /\ args = <<>>
    /\ todo = {}
    /\ result = {}

\* a caller's Template::find_keys(input)
CallFindKeys ==
    /\ pc = "start"
    /\ scanned' = {find_keys(input)}
    /\ pc' = "scanned"
    /\ UNCHANGED <<input, opts, parsed, self, args, todo, result>>

NextScan == CallFindKeys

SpecScan == InitScan /\ [][NextScan]_vars

\* --------------------------------------------------------- templates and args

TemplateAlphabet == {"$", "{", "}", "a", "b"}

\* what a generated template is put together from: single characters and whole
\* markers
Parts == {<<c>> : c \in TemplateAlphabet} \cup {Marker(<<"a">>), Marker(<<"b">>)}

\* every concatenation of at most n parts
RECURSIVE Joined(_)
Joined(n) ==
    IF n = 0
    THEN {<<>>}
    ELSE LET shorter == Joined(n - 1)
         IN  shorter \cup {t \o p : t \in shorter, p \in Parts}

\* the inputs of tests::duplicate_keys, tests::optional_keys and tests::basic
DuplicateKeysInput ==
    <<"$", "{", "o", "n", "e", "}", " ", "a", "n", "d", " ", "$", "{", "t", "w",
      "o", "}", " ", "a", "n", "d", " ", "$", "{", "o", "n", "e", "}">>
OptionalKeysInput ==
    <<"$", "{", "f", "o", "o", "}", " ", "$", "{", "b", "a", "r", "}", " ", "$",
      "{", "b", "a", "z", "}">>
BasicInput ==
    <<"$", "{", "a", "}", " ", "$", "{", "b", "}", "$", "{", "c", "}">>

TestInputs == {DuplicateKeysInput, OptionalKeysInput, BasicInput}

\* templates in which text next to a marker is one character short of a marker
EdgeInputs ==
    {<<"$", "$", "{", "a", "}", "{", "a", "}">>,
     <<"$", "$", "{", "a", "}", "a", "}">>,
     <<"$", "{", "a", "}", "{", "b", "}", "$", "{", "b", "}">>}

Templates == Joined(MaxParts) \cup TestInputs \cup EdgeInputs

\* the Args of the same tests
DuplicateKeysArgs == (<<"o", "n", "e">> :> <<"1">>) @@ (<<"t", "w", "o">> :> <<"2">>)
OptionalKeysArgs ==
    (<<"f", "o", "o">> :> <<"f", "a", "l", "s", "e">>)
        @@ (<<"u", "n", "k", "n", "o", "w", "n">> :> <<"t", "r", "u", "e">>)
BasicArgs == (<<"a">> :> <<"0">>) @@ (<<"b">> :> <<"1">>) @@ (<<"c">> :> <<"2">>)

TestArgs == {DuplicateKeysArgs, OptionalKeysArgs, BasicArgs}

ArgKeys == {<<"a">>, <<"b">>}

\* rendered values: empty, plain, a lone `$`, a lone brace, and the text of a marker
ArgVals == {<<>>, <<"x">>, <<"$">>, <<"{">>, Marker(<<"b">>)}

\* every mapping of some of ArgKeys to ArgVals, and the tests' mappings
ArgsSet == UNION {[ks -> ArgVals] : ks \in SUBSET ArgKeys} \cup TestArgs

\* ------------------------------------------------------ the specification

Init ==
    /\ input \in Templates
    /\ opts \in AllOpts
    /\ pc = "start"
    /\ scanned = {}
    /\ parsed = {}
    /\ self = {}
    /\ args = <<>>
    /\ todo = {}
    /\ result = {}

\* let template = Template::parse(input, opts)
CallParse ==
    /\ pc = "start"
    /\ parsed' = {parse(input, opts)}
    /\ pc' = IF parse(input, opts).ok THEN "parsed" ELSE "failed"
    /\ UNCHANGED <<input, opts, scanned, self, args, todo, result>>

\* template.apply(&a): self is moved in and the for loop starts over a.mapping
CallApply ==
    /\ pc = "parsed"
    /\ \E a \in ArgsSet :
        /\ args' = a
        /\ todo' = DOMAIN a
    /\ self' = (CHOOSE r \in parsed : TRUE).val
    /\ pc' = "apply"
    /\ UNCHANGED <<input, opts, scanned, parsed, result>>

\* one iteration of the for loop: the HashMap yields its pairs in any order
ApplyStep ==
    /\ pc = "apply"
    /\ \E key \in todo :
        LET step == ApplyArg(self, key, args[key])
        IN  /\ self' = step.t
            /\ todo' = todo \ {key}
            /\ result' = step.ret
            /\ pc' = IF step.ret = {} THEN "apply" ELSE "done"
    /\ UNCHANGED <<input, opts, scanned, parsed, args>>

\* the loop is over: apply returns
ApplyReturn ==
    /\ pc = "apply"
    /\ todo = {}
    /\ result' = {ApplyEnd(self)}
    /\ pc' = "done"
    /\ UNCHANGED <<input, opts, scanned, parsed, self, args, todo>>

Next == CallParse \/ CallApply \/ ApplyStep \/ ApplyReturn

Spec == Init /\ [][Next]_vars

\* ------------------------------------------------- properties of the scanner

Offsets(s) == 0..(Len(s) - 1)

\* the offsets at which the two characters `${` stand
Opens(s) == {i \in Offsets(s) : At(s, i) = "$" /\ i + 1 < Len(s) /\ At(s, i + 1) = "{"}

\* the offsets of the `}` characters
Closes(s) == {j \in Offsets(s) : At(s, j) = "}"}

\* a `${` before offset j has had no `}` between it and j
OpenBefore(s, j) ==
    \E i \in Opens(s) : i < j /\ \A k \in Closes(s) : ~(i < k /\ k < j)

\* the `${` that stand where an earlier `${` is still open
InnerOpens(s) == {j \in Opens(s) : OpenBefore(s, j)}

\* the `{` that are not the brace of a `${` and stand where a `${` is open
InnerBraces(s) ==
    {j \in Offsets(s) : At(s, j) = "{" /\ (j - 1) \notin Opens(s) /\ OpenBefore(s, j)}

\* the `}` that stand where a `${` is open
ClosingBraces(s) == {j \in Closes(s) : OpenBefore(s, j)}

Least(S) == CHOOSE x \in S : \A y \in S : x <= y

ScanResult == CHOOSE r \in scanned : TRUE

NestedExample == <<"$", "{", "$", "{", "a", "}", "}">>

\* C2: when the scan reaches a `${` while an earlier `${` is still open, find_keys
\* returns the NestedTemplate error whose pos is the offset of that inner `${`;
\* find_keys("${${a}}") is NestedTemplate at offset 2.
C2_NestedOpenRejected ==
    pc = "scanned" =>
        /\ (/\ InnerOpens(input) # {}
            /\ \A b \in InnerBraces(input) : b > Least(InnerOpens(input)))
           => ScanResult = Err(NestedTemplate(Least(InnerOpens(input))))
        /\ input = NestedExample => ScanResult = Err(NestedTemplate(2))

\* C5 as stated: find_keys returns an error for every input whose number of `${`
\* differs from its number of `}`.
C5_AnyCountMismatchIsError ==
    (pc = "scanned" /\ Cardinality(Opens(input)) # Cardinality(Closes(input)))
        => ~ScanResult.ok

\* C5 as amended: find_keys returns an error for every input whose number of `${`
\* differs from its number of `}` that stand where a marker is open.
C5_OpenCountMismatchIsError ==
    (pc = "scanned" /\ Cardinality(Opens(input)) # Cardinality(ClosingBraces(input)))
        => ~ScanResult.ok

\* a scanned input with more `${` than closing `}`, a `}` outside any marker too
C5_Witness ==
    /\ pc = "scanned"
    /\ Cardinality(Opens(input)) > Cardinality(ClosingBraces(input))
    /\ Closes(input) \ ClosingBraces(input) # {}
    /\ ClosingBraces(input) # {}
    /\ ScanResult = Err(MismatchedBraces(2, 1))

\* the first `}` after offset i
FirstCloseAfter(s, i) == Least({j \in Closes(s) : j > i})

\* every `${` is followed by a `}` before any further `{` (and so before any `${`)
WellFormed(s) ==
    \A i \in Opens(s) :
        \E j \in Closes(s) :
            /\ j > i + 1
            /\ \A k \in (i + 2)..(j - 1) : At(s, k) # "{"

\* the n-th `${` from the left
NthOpen(s, n) == CHOOSE i \in Opens(s) : Cardinality({h \in Opens(s) : h <= i}) = n

\* the text strictly between each `${` and the first `}` after it, left to right
MarkerTexts(s) ==
    [n \in 1..Cardinality(Opens(s)) |->
        LET i == NthOpen(s, n)
            j == FirstCloseAfter(s, i)
        IN  [k \in 1..(j - i - 2) |-> At(s, i + 1 + k)]]

\* C9: on an input whose every `${` is closed before any further `{`, find_keys
\* returns one key per `${`, left to right, each the untrimmed text between the
\* `${` and the first `}` after it; no key holds a brace.
C9_KeysInOrder ==
    (pc = "scanned" /\ WellFormed(input)) =>
        /\ ScanResult = Ok(MarkerTexts(input))
        /\ \A n \in 1..Len(ScanResult.val) :
               \A k \in 1..Len(ScanResult.val[n]) : ScanResult.val[n][k] \notin {"{", "}"}

\* two markers with different keys, a stray `}` and text between them
C9_Witness ==
    /\ pc = "scanned"
    /\ WellFormed(input)
    /\ Cardinality(Opens(input)) = 2
    /\ ScanResult.ok
    /\ Len(ScanResult.val) = 2
    /\ ScanResult.val[1] = <<"a">>
    /\ ScanResult.val[2] = <<>>

\* -------------------------------------------- properties of parse and apply

Parsed == CHOOSE r \in parsed : TRUE
ParsedTemplate == Parsed.val
Result == CHOOSE r \in result : TRUE

KeySet(keys) == {keys[i] : i \in 1..Len(keys)}
Count(keys, k) == Cardinality({i \in 1..Len(keys) : keys[i] = k})
Distinct(keys) == \A i, j \in 1..Len(keys) : keys[i] = keys[j] => i = j

\* the offsets at which pat occurs in s
Occurrences(s, pat) == {p \in 0..(Len(s) - Len(pat)) : MatchAt(s, pat, p)}
Contains(s, pat) == Occurrences(s, pat) # {}

\* the orders in which the pairs of a mapping with key set S can be iterated
Orders(S) ==
    {q \in [1..Cardinality(S) -> S] : \A i, j \in 1..Cardinality(S) : q[i] = q[j] => i = j}

\* C1: apply returns the same result whichever order the pairs of the mapping are
\* iterated in.
C1_OrderIndependent ==
    pc = "done" =>
        \A order \in Orders(DOMAIN args) : ApplyInOrder(ParsedTemplate, args, order) = Result

\* C3: with optional_keys off and a template that has a key, apply with a mapping
\* that holds a key the template lacks returns Error::OptionalKeys, whatever the
\* other two toggles.
C3_UnknownKeyRejected ==
    (/\ pc = "done"
     /\ ParsedTemplate.keys # <<>>
     /\ ~opts.optional_keys
     /\ DOMAIN args \ KeySet(ParsedTemplate.keys) # {})
        => Result = Err(OptionalKeys)

\* the template's keys are distinct and the mapping's key set is exactly theirs
RoundTripCase ==
    /\ pc = "done"
    /\ Distinct(ParsedTemplate.keys)
    /\ DOMAIN args = KeySet(ParsedTemplate.keys)

NoMarkerLeft ==
    /\ Result.ok
    /\ \A k \in KeySet(ParsedTemplate.keys) : ~Contains(Result.val, Marker(k))

\* C4 as stated: with distinct keys K and a mapping whose key set is K, whatever
\* its values, apply returns Ok with a text that holds no `${k}` for k in K.
C4_RoundTripAnyValues == RoundTripCase => NoMarkerLeft

\* a value that is not empty and holds neither `$` nor `{`
PlainValue(v) == v # <<>> /\ \A i \in 1..Len(v) : v[i] \notin {"$", "{"}

\* C4 as amended: with distinct keys K and a mapping whose key set is K and whose
\* values are non-empty and hold neither `$` nor `{`, apply returns Ok with a text
\* that holds no `${k}` for k in K.
C4_RoundTripPlainValues ==
    (RoundTripCase /\ \A k \in DOMAIN args : PlainValue(args[k])) => NoMarkerLeft

\* two distinct keys, both supplied with plain values, next to text that is not
\* a marker
C4_Witness ==
    /\ RoundTripCase
    /\ \A k \in DOMAIN args : PlainValue(args[k])
    /\ Cardinality(DOMAIN args) = 2
    /\ Len(input) > 8
    /\ NoMarkerLeft
    /\ Result.val # input

Repeats(keys) == \E i, j \in 1..Len(keys) : i # j /\ keys[i] = keys[j]

\* what parse is to return for key list K
ExpectedParse(s, o, K) ==
    IF K = <<>> /\ ~o.empty_template
    THEN Err(EmptyTemplate)
    ELSE IF Repeats(K) /\ ~o.duplicate_keys
    THEN Err(DuplicateKeys)
    ELSE Ok([data |-> s, keys |-> K, opts |-> o])

\* C6: where find_keys succeeds with key list K, parse returns EmptyTemplate
\* exactly when K is empty and empty_template is off, DuplicateKeys exactly when a
\* name repeats in K and duplicate_keys is off, and otherwise a template of the
\* unchanged text, K and the options; flipping optional_keys changes the result
\* in the stored options only.
C6_ParsePolicy ==
    (pc \in {"parsed", "failed"} /\ find_keys(input).ok) =>
        LET K == find_keys(input).val
            flipped == [opts EXCEPT !.optional_keys = ~opts.optional_keys]
        IN  /\ Parsed = ExpectedParse(input, opts, K)
            /\ parse(input, flipped) = ExpectedParse(input, flipped, K)
            /\ parse(input, flipped).ok = Parsed.ok

\* a template whose first key comes again after another one, rejected although
\* the other two toggles are on
C6_Witness ==
    /\ pc = "failed"
    /\ find_keys(input).ok
    /\ Len(find_keys(input).val) = 3
    /\ find_keys(input).val[1] = find_keys(input).val[3]
    /\ find_keys(input).val[1] # find_keys(input).val[2]
    /\ opts.optional_keys /\ opts.empty_template
    /\ Parsed = Err(DuplicateKeys)

\* C7: a text without markers parsed with empty_template on is returned unchanged
\* by apply, for every mapping.
C7_Identity ==
    (pc = "done" /\ Opens(input) = {} /\ opts.empty_template) => Result = Ok(input)

\* a non-empty text without markers, strict about unknown keys, given two arguments
C7_Witness ==
    /\ pc = "done"
    /\ Opens(input) = {}
    /\ input # <<>>
    /\ opts.empty_template /\ ~opts.optional_keys
    /\ Cardinality(DOMAIN args) = 2
    /\ Result = Ok(input)

ReplacedAll(old, pat, val, new) ==
    LET occ == Occurrences(old, pat)
        grow == Len(val) - Len(pat)
        shift(p) == Cardinality({q \in occ : q < p}) * grow
        covered(p) == \E q \in occ : q <= p /\ p < q + Len(pat)
    IN  /\ \A p, q \in occ : p < q => p + Len(pat) <= q
        /\ Len(new) = Len(old) + Cardinality(occ) * grow
        /\ \A q \in occ : MatchAt(new, val, q + shift(q))
        /\ \A p \in Offsets(old) : ~covered(p) => At(new, p + shift(p)) = At(old, p)

\* keys without any k, the rest in order
Without(keys, k) ==
    LET keep(x) == x # k
    IN  SelectSeq(keys, keep)

\* the step of apply that visits key k of the mapping, k being an unresolved key
ResolvesKey(k) ==
    /\ pc = "apply"
    /\ k \in todo
    /\ k \notin todo'
    /\ Count(self.keys, k) >= 1

\* C10: the step of apply for an argument whose key k is unresolved removes every
\* k from the unresolved keys, keeps the others in order, and replaces every
\* `${k}` of the buffer by the value; "${one} and ${two} and ${one}" with
\* {one: 1, two: 2} yields "1 and 2 and 1".
C10_ResolveAll ==
    /\ [][\A k \in DOMAIN args :
             ResolvesKey(k) =>
                 /\ pc' = "apply"
                 /\ self'.keys = Without(self.keys, k)
                 /\ ReplacedAll(self.data, Marker(k), args[k], self'.data)]_vars
    /\ [](pc = "done" /\ input = DuplicateKeysInput /\ args = DuplicateKeysArgs
            => Result = Ok(<<"1", " ", "a", "n", "d", " ", "2", " ", "a", "n", "d", " ", "1">>))

\* tests::duplicate_keys has returned
C10_Witness ==
    /\ pc = "done"
    /\ input = DuplicateKeysInput
    /\ args = DuplicateKeysArgs
    /\ opts.duplicate_keys
    /\ Count(ParsedTemplate.keys, <<"o", "n", "e">>) = 2
    /\ Result = Ok(<<"1", " ", "a", "n", "d", " ", "2", " ", "a", "n", "d", " ", "1">>)

====
